---- MODULE Spec2Model ----
(***************************************************************************)
(* Model of the day-template scaffolder                                    *)
(* (src/day00/rust/mr-kaffee/template/src/lib.rs): write_files, write_file *)
(* and the InputProvider trait, over a small file system.                  *)
(*                                                                         *)
(* Text.  A text is a sequence of tokens in canonical form: every brace    *)
(* character "{" or "}" is a token of its own and every maximal run of     *)
(* other characters is one token.  Canonical token sequences correspond    *)
(* one-to-one to character strings, and a character-level match of the     *)
(* pattern "{NAME}" is exactly a match of the three tokens "{", NAME, "}", *)
(* so str::replace is modelled on tokens without loss.                     *)
(***************************************************************************)
EXTENDS Integers, Sequences, FiniteSets, TLC

VARIABLES
  dirs,          \* directories that exist, relative to target_path ("." is target_path itself)
  files,         \* the files under target_path: relative path |-> content (a text)
  pc,            \* position of the current write_files call
  args,          \* arguments of the current call
  order,         \* iteration order of the variables HashMap of the current call
  input,         \* text returned by load_input in the current call
  result,        \* result of the current call
  written,       \* paths for which write_file returned Ok in the current call, in order
  providerCalls, \* number of load_input calls made by the current call
  faults,        \* steps of the current call at which the environment made an operation fail
  pre,           \* file system at the start of the current call
  prevKind,      \* result kind of the previous call
  calls          \* number of write_files calls started

vars == <<dirs, files, pc, args, order, input, result, written, providerCalls,
          faults, pre, prevKind, calls>>

\* Number of successive write_files invocations explored.
MaxCalls == 2

-----------------------------------------------------------------------------
(* Texts *)

IsBrace(tok) == tok = "{" \/ tok = "}"

\* The concatenation of the sequences pieces[lo], ..., pieces[hi].
RECURSIVE Concat(_, _, _)
Concat(pieces, lo, hi) ==
  IF lo > hi THEN <<>>
  ELSE IF lo = hi THEN pieces[lo]
  ELSE LET mid == (lo + hi) \div 2
       IN  Concat(pieces, lo, mid) \o Concat(pieces, mid + 1, hi)

\* The string made of the tokens t[lo], ..., t[hi] (lo <= hi).
RECURSIVE Join(_, _, _)
Join(t, lo, hi) ==
  IF lo = hi THEN t[lo]
  ELSE LET mid == (lo + hi) \div 2
       IN  Join(t, lo, mid) \o Join(t, mid + 1, hi)

\* Token i starts a maximal run of non-brace tokens, which ends at RunEnd.
RunStart(t, i) == ~IsBrace(t[i]) /\ (i = 1 \/ IsBrace(t[i - 1]))

RunEnd(t, i) ==
  CHOOSE j \in i..Len(t) :
    /\ \A k \in i..j : ~IsBrace(t[k])
    /\ j = Len(t) \/ IsBrace(t[j + 1])

\* Canonical form: every run of adjacent non-brace tokens becomes one token.
Normalize(t) ==
  Concat([i \in 1..Len(t) |->
            IF IsBrace(t[i]) THEN <<t[i]>>
            ELSE IF RunStart(t, i) THEN <<Join(t, i, RunEnd(t, i))>>
            ELSE <<>>],
         1, Len(t))

Digit == <<"0", "1", "2", "3", "4", "5", "6", "7", "8", "9">>

\* format!("{}", n) for an unsigned integer: its decimal digits.
RECURSIVE Decimal(_)
Decimal(n) ==
  IF n < 10 THEN Digit[n + 1] ELSE Decimal(n \div 10) \o Digit[(n % 10) + 1]

\* format!("{{{}}}", name): the placeholder of a bound name.
Placeholder(name) == <<"{", name, "}">>

\* pat occurs in t at position i.
MatchesAt(t, i, pat) ==
  /\ i >= 1
  /\ i + Len(pat) - 1 <= Len(t)
  /\ SubSeq(t, i, i + Len(pat) - 1) = pat

\* str::replace(pat, val) for a placeholder pattern: every match of pat is
\* replaced by val and the inserted text is not searched again.  Two matches
\* of a placeholder cannot overlap (it starts with "{", ends with "}" and has
\* no brace in between), so the left-to-right scan selects every match.
ReplaceAll(t, pat, val) ==
  Concat([i \in 1..Len(t) |->
            IF MatchesAt(t, i, pat) THEN val
            ELSE IF \E k \in 1..(Len(pat) - 1) : MatchesAt(t, i - k, pat) THEN <<>>
            ELSE <<t[i]>>],
         1, Len(t))

Replace(t, pat, val) == Normalize(ReplaceAll(t, pat, val))

-----------------------------------------------------------------------------
(* The templates, tokenised from the source constants.  A TLA+ string cannot *)
(* hold a backquote character; each one in LIB_RS is written <BACKTICK>.   *)

MAIN_RS ==
  <<
    "use mr_kaffee_aoc::", "{", "err::PuzzleError, GenericPuzzle", "}", ";\nuse mr_kaffee_", "{",
    "YEAR", "}", "_", "{", "DAY", "}", "::*;\n\nfn main() -> Result<(), PuzzleError> ", "{",
    "\n    puzzle().solve_report_err()\n", "}", "\n"
  >>

LIB_RS ==
  <<
    "use mr_kaffee_aoc::", "{", "Puzzle, Star", "}",
    ";\nuse input::*;\n\n/// the puzzle\npub fn puzzle() -> Puzzle<PuzzleData, usize, usize, usize, usize> ",
    "{", "\n    Puzzle ", "{", "\n        year: ", "{", "YEAR", "}", ",\n        day: ", "{",
    "DAY", "}", ",\n        input: include_str!(\"../input.txt\"),\n        star1: Some(Star ",
    "{",
    "\n            name: \"Star 1\",\n            f: &star_1,\n            exp: None,\n        ",
    "}", "),\n        star2: Some(Star ", "{",
    "\n            name: \"Star 2\",\n            f: &star_2,\n            exp: None,\n        ",
    "}", "),\n    ", "}", "\n", "}", "\n\npub mod input ", "{",
    "\n    use core::fmt;\n    use std::", "{", "convert::Infallible, str::FromStr", "}",
    ";\n\n    #[derive(Debug)]\n    pub struct PuzzleData ", "{", "\n        input: String,\n    ",
    "}", "\n\n    impl FromStr for PuzzleData ", "{",
    "\n        type Err = Infallible;\n\n        /// parse the puzzle input\n        ///\n        /// # Examples\n        /// <BACKTICK><BACKTICK><BACKTICK>\n        /// # use mr_kaffee_",
    "{", "YEAR", "}", "_", "{", "DAY", "}",
    "::input::*;\n        /// let data = \"Hello World\".parse::<PuzzleData>().unwrap();\n        /// assert_eq!(\"Hello World\", format!(\"",
    "{", "}",
    "\", data));\n        /// <BACKTICK><BACKTICK><BACKTICK>    \n        fn from_str(s: &str) -> Result<Self, Self::Err> ",
    "{", "\n            Ok(PuzzleData ", "{", " input: s.into() ", "}", ")\n        ", "}",
    "\n    ", "}", "\n\n    impl fmt::Display for PuzzleData ", "{",
    "\n        fn fmt(&self, f: &mut fmt::Formatter<'_>) -> fmt::Result ", "{",
    "\n            self.input.fmt(f)\n        ", "}", "\n    ", "}", "\n", "}",
    "\n\npub fn star_1(data: &PuzzleData) -> usize ", "{", "\n    println!(\"", "{", "}",
    "\", data);\n    0\n", "}", "\n\npub fn star_2(data: &PuzzleData) -> usize ", "{",
    "\n    println!(\"", "{", ":?", "}", "\", data);\n    0\n", "}",
    "\n\n#[cfg(test)]\nmod tests ", "{",
    "\n    use super::*;\n    use mr_kaffee_aoc::err::PuzzleError;\n\n    const CONTENT: &str = r#\"Hello World!\nFreedom\"#;\n\n    #[test]\n    pub fn test_puzzle_data_from_str() -> Result<(), PuzzleError> ",
    "{", "\n        let data = CONTENT.parse::<PuzzleData>()?;\n        assert_eq!(format!(\"",
    "{", "}", "\", data), CONTENT.to_string());\n        Ok(())\n    ", "}", "\n", "}", "\n"
  >>

CARGO_TOML ==
  <<
    "[package]\nname = \"mr-kaffee-", "{", "YEAR", "}", "-", "{", "DAY", "}",
    "\"\nversion = \"0.1.0\"\nedition = \"2021\"\n\n# See more keys and their definitions at https://doc.rust-lang.org/cargo/reference/manifest.html\n\n[dependencies]\n\nmr-kaffee-aoc = ",
    "{", " path = \"", "{", "AOC_PATH", "}", "\" ", "}", "\n"
  >>

GITIGNORE ==
  <<
    "**/target\n"
  >>

-----------------------------------------------------------------------------
(* Arguments of write_files and the input providers *)

\* (year, day) pairs: year: u16, day: u8.
YearDays == { <<2015, 1>>, <<2022, 25>> }

\* lib_path: a path is an OS string; to_str() yields None when it is not UTF-8.
\* The second path is legal and contains placeholder syntax.
LibPaths ==
  { [utf8 |-> TRUE,  text |-> <<"../../aoc">>],
    [utf8 |-> TRUE,  text |-> <<"{", "DAY", "}", "/aoc">>],
    [utf8 |-> FALSE, text |-> <<>>] }

\* "test": tests::TestInputProvider; "net": InputLoader.
Providers == {"test", "net"}

Args ==
  { [lib |-> l, year |-> yd[1], day |-> yd[2], force |-> f, provider |-> p] :
      l \in LibPaths, yd \in YearDays, f \in BOOLEAN, p \in Providers }

NoArgs == [lib |-> [utf8 |-> TRUE, text |-> <<>>], year |-> 0, day |-> 0,
           force |-> FALSE, provider |-> "test"]

\* TestInputProvider::load_input: format!("Test input for {}/{}\n", year, day).
TestInput(year, day) ==
  <<"Test input for " \o Decimal(year) \o "/" \o Decimal(day) \o "\n">>

\* Response bodies the remote service may send: one that looks like a template.
NetTexts ==
  { <<"{", "YEAR", "}", "/", "{", "DAY", "}", " ", "{", "AOC_PATH", "}", "\n">> }

\* The outcomes of input_provider.load_input(year, day): Ok(text) or Err.
LoadOutcomes(a) ==
  IF a.provider = "test"
  THEN { [ok |-> TRUE, text |-> TestInput(a.year, a.day)] }
  ELSE { [ok |-> TRUE, text |-> t] : t \in NetTexts } \cup { [ok |-> FALSE, text |-> <<>>] }

-----------------------------------------------------------------------------
(* Variable bindings and rendering *)

Names == {"AOC_PATH", "YEAR", "DAY"}

\* The variables HashMap of write_files.
Variables(a) ==
  [n \in Names |->
     CASE n = "AOC_PATH" -> a.lib.text
       [] n = "YEAR"     -> <<Decimal(a.year)>>
       [] n = "DAY"      -> <<Decimal(a.day)>>]

\* HashMap::new(): no binding.
NoVariables == [n \in {} |-> <<>>]

\* The orders in which a HashMap with the given keys may be iterated.
Orders(keys) ==
  { o \in [1..Cardinality(keys) -> keys] : \A i, j \in DOMAIN o : i # j => o[i] # o[j] }

\* The substitution loop of write_file, iterating the bindings in order ord;
\* each replacement is applied to the output of the previous one.
RECURSIVE Render(_, _, _)
Render(template, variables, ord) ==
  IF Len(ord) = 0 THEN template
  ELSE Render(Replace(template, Placeholder(Head(ord)), variables[Head(ord)]),
              variables, Tail(ord))

-----------------------------------------------------------------------------
(* File system under target_path *)

INPUT_TXT == "input.txt"
GITIGNORE_PATH == ".gitignore"
CARGO_TOML_PATH == "Cargo.toml"
MAIN_RS_PATH == "src/main.rs"
LIB_RS_PATH == "src/lib.rs"

\* The files write_files writes, in the order it writes them.
FileSeq == <<INPUT_TXT, GITIGNORE_PATH, CARGO_TOML_PATH, MAIN_RS_PATH, LIB_RS_PATH>>

\* A file write_files never names.
NOTES == "notes.txt"

NoFiles == [p \in {} |-> <<>>]

Exists(f, p) == p \in DOMAIN f

Put(f, p, c) == [q \in (DOMAIN f) \cup {p} |-> IF q = p THEN c ELSE f[q]]

\* File systems a call may start from: no target directory; a target
\* directory holding a foreign file; an earlier scaffold with a foreign file.
InitFs ==
  { [dirs |-> {}, files |-> NoFiles],
    [dirs |-> {"."}, files |-> Put(NoFiles, NOTES, <<"my notes\n">>)],
    [dirs |-> {".", "src"},
     files |-> [p \in {NOTES, INPUT_TXT, GITIGNORE_PATH, CARGO_TOML_PATH,
                       MAIN_RS_PATH, LIB_RS_PATH} |->
                  IF p = NOTES THEN <<"my notes\n">> ELSE <<"old ", "{", "YEAR", "}", "\n">>]] }

\* Mutants of the existence check: the check dropped, the existence test
\* dropped, the force flag ignored.
TargetBlocked_Never(d, force) == FALSE

TargetBlocked_NoExistsTest(d, force) == ~force

TargetBlocked_IgnoresForce(d, force) == "." \in d

\* target_path.exists() && !force
TargetBlocked(d, force) == "." \in d /\ ~force

NoResult == [kind |-> "None", at |-> ""]
Ok == [kind |-> "Ok", at |-> ""]
Err(kind, at) == [kind |-> kind, at |-> at]

-----------------------------------------------------------------------------
(* write_files, step by step *)

Init ==
  /\ \E fs \in InitFs : dirs = fs.dirs /\ files = fs.files /\ pre = fs
  /\ pc = "idle"
  /\ args = NoArgs
  /\ order = <<>>
  /\ input = <<>>
  /\ result = NoResult
  /\ written = <<>>
  /\ providerCalls = 0
  /\ faults = {}
  /\ prevKind = "None"
  /\ calls = 0

\* A caller invokes write_files.
Call ==
  /\ pc \in {"idle", "done"}
  /\ calls < MaxCalls
  /\ \E a \in Args : args' = a
  /\ pc' = "to_str"
  /\ calls' = calls + 1
  /\ pre' = [dirs |-> dirs, files |-> files]
  /\ prevKind' = result.kind
  /\ order' = <<>>
  /\ input' = <<>>
  /\ result' = NoResult
  /\ written' = <<>>
  /\ providerCalls' = 0
  /\ faults' = {}
  /\ UNCHANGED <<dirs, files>>

\* Return from write_files with result r.
Return(r) ==
  /\ pc' = "done"
  /\ result' = r

\* Mutant: the existence check made before the library path is converted.
ConvertLibPath_AfterExistsCheck ==
  /\ pc = "to_str"
  /\ IF TargetBlocked(dirs, args.force)
     THEN /\ Return(Err("AlreadyExists", "exists"))
          /\ UNCHANGED <<order, faults>>
     ELSE IF args.lib.utf8
     THEN /\ \E o \in Orders(Names) : order' = o
          /\ pc' = "exists"
          /\ UNCHANGED <<result, faults>>
     ELSE /\ Return(Err("Other", "to_str"))
          /\ faults' = faults \cup {"to_str"}
          /\ UNCHANGED order
  /\ UNCHANGED <<dirs, files, args, input, written, providerCalls, pre, prevKind, calls>>

\* lib_path.to_str().ok_or_else(..)? and the construction of variables.
ConvertLibPath ==
  /\ pc = "to_str"
  /\ IF args.lib.utf8
     THEN /\ \E o \in Orders(Names) : order' = o
          /\ pc' = "exists"
          /\ UNCHANGED <<result, faults>>
     ELSE /\ Return(Err("Other", "to_str"))
          /\ faults' = faults \cup {"to_str"}
          /\ UNCHANGED order
  /\ UNCHANGED <<dirs, files, args, input, written, providerCalls, pre, prevKind, calls>>

\* if target_path.exists() && !force { return Err(AlreadyExists) }
CheckExists ==
  /\ pc = "exists"
  /\ IF TargetBlocked(dirs, args.force)
     THEN Return(Err("AlreadyExists", "exists"))
     ELSE pc' = "create_dir_all" /\ UNCHANGED result
  /\ UNCHANGED <<dirs, files, args, order, input, written, providerCalls, faults, pre,
                 prevKind, calls>>

\* Mutant: an existing target directory is removed and created anew.
CreateDirAll_Recreates ==
  /\ pc = "create_dir_all"
  /\ \/ /\ dirs' = dirs \cup {".", "src"}
        /\ files' = NoFiles
        /\ pc' = "load_input"
        /\ UNCHANGED <<result, faults>>
     \/ /\ "src" \notin dirs
        /\ dirs' \in {dirs, dirs \cup {"."}}
        /\ Return(Err("Io", "create_dir_all"))
        /\ faults' = faults \cup {"create_dir_all"}
        /\ UNCHANGED files
  /\ UNCHANGED <<args, order, input, written, providerCalls, pre, prevKind, calls>>

\* fs::create_dir_all(target_path.join("src"))?: creates target_path, then src;
\* it may fail before creating anything or after creating target_path.
CreateDirAll ==
  /\ pc = "create_dir_all"
  /\ \/ /\ dirs' = dirs \cup {".", "src"}
        /\ pc' = "load_input"
        /\ UNCHANGED <<result, faults>>
     \/ /\ "src" \notin dirs
        /\ dirs' \in {dirs, dirs \cup {"."}}
        /\ Return(Err("Io", "create_dir_all"))
        /\ faults' = faults \cup {"create_dir_all"}
  /\ UNCHANGED <<files, args, order, input, written, providerCalls, pre, prevKind, calls>>

\* Mutant: a provider error is swallowed and an empty input is used.
LoadInput_DefaultsOnError ==
  /\ pc = "load_input"
  /\ providerCalls' = providerCalls + 1
  /\ \E r \in LoadOutcomes(args) :
       /\ input' = r.text
       /\ pc' = INPUT_TXT
       /\ faults' = IF r.ok THEN faults ELSE faults \cup {"load_input"}
       /\ UNCHANGED result
  /\ UNCHANGED <<dirs, files, args, order, written, pre, prevKind, calls>>

\* input_provider.load_input(year, day)?
LoadInput ==
  /\ pc = "load_input"
  /\ providerCalls' = providerCalls + 1
  /\ \E r \in LoadOutcomes(args) :
       IF r.ok
       THEN /\ input' = r.text
            /\ pc' = INPUT_TXT
            /\ UNCHANGED <<result, faults>>
       ELSE /\ Return(Err("Other", "load_input"))
            /\ faults' = faults \cup {"load_input"}
            /\ UNCHANGED input
  /\ UNCHANGED <<dirs, files, args, order, written, pre, prevKind, calls>>

\* What follows a successful write_file at step i of FileSeq.
AfterWrite(i) ==
  IF i < Len(FileSeq)
  THEN pc' = FileSeq[i + 1] /\ UNCHANGED result
  ELSE Return(Ok)

\* Mutant: the result of fs::write is dropped, so a failed write does not abort.
WriteFile_IgnoresError(i, template, variables, ord) ==
  /\ pc = FileSeq[i]
  /\ \/ /\ files' = Put(files, FileSeq[i], Render(template, variables, ord))
        /\ written' = Append(written, FileSeq[i])
        /\ UNCHANGED faults
     \/ /\ faults' = faults \cup {FileSeq[i]}
        /\ UNCHANGED <<files, written>>
  /\ AfterWrite(i)
  /\ UNCHANGED <<dirs, args, order, input, providerCalls, pre, prevKind, calls>>

\* write_file(template, variables, path)?: render the content, then
\* fs::write(path, content)?, which writes the file or fails.
WriteFile(i, template, variables, ord) ==
  /\ pc = FileSeq[i]
  /\ \/ /\ files' = Put(files, FileSeq[i], Render(template, variables, ord))
        /\ written' = Append(written, FileSeq[i])
        /\ AfterWrite(i)
        /\ UNCHANGED faults
     \/ /\ Return(Err("Io", FileSeq[i]))
        /\ faults' = faults \cup {FileSeq[i]}
        /\ UNCHANGED <<files, written>>
  /\ UNCHANGED <<dirs, args, order, input, providerCalls, pre, prevKind, calls>>

\* Mutant: the input file is rendered with the bindings of the templates.
WriteInput_Substitutes == WriteFile(1, input, Variables(args), order)

\* input file from web: written with an empty HashMap.
WriteInput == WriteFile(1, input, NoVariables, <<>>)

\* other files from templates
WriteGitignore == WriteFile(2, GITIGNORE, Variables(args), order)

WriteCargoToml == WriteFile(3, CARGO_TOML, Variables(args), order)

WriteMainRs == WriteFile(4, MAIN_RS, Variables(args), order)

WriteLibRs == WriteFile(5, LIB_RS, Variables(args), order)

Next ==
  \/ Call
  \/ ConvertLibPath
  \/ CheckExists
  \/ CreateDirAll
  \/ LoadInput
  \/ WriteInput
  \/ WriteGitignore
  \/ WriteCargoToml
  \/ WriteMainRs
  \/ WriteLibRs

Spec == Init /\ [][Next]_vars

-----------------------------------------------------------------------------
(* Vocabulary of the properties *)

Done == pc = "done"

FiveFiles == { FileSeq[i] : i \in 1..Len(FileSeq) }

TargetExisted == "." \in pre.dirs

FsUnchanged == dirs = pre.dirs /\ files = pre.files

\* The content the current call produces for path p.
Produced(p) ==
  CASE p = INPUT_TXT       -> input
    [] p = GITIGNORE_PATH  -> Render(GITIGNORE, Variables(args), order)
    [] p = CARGO_TOML_PATH -> Render(CARGO_TOML, Variables(args), order)
    [] p = MAIN_RS_PATH    -> Render(MAIN_RS, Variables(args), order)
    [] p = LIB_RS_PATH     -> Render(LIB_RS, Variables(args), order)

\* Path p is as it was when the call started.
SameAsBefore(p) ==
  /\ Exists(files, p) <=> Exists(pre.files, p)
  /\ Exists(files, p) => files[p] = pre.files[p]

\* One pass over the template in which each placeholder of a bound name is
\* replaced by that name's value and nothing else is changed.
SubstituteAll(t, v) ==
  Concat([i \in 1..Len(t) |->
            IF \E n \in DOMAIN v : MatchesAt(t, i, Placeholder(n))
            THEN v[CHOOSE n \in DOMAIN v : MatchesAt(t, i, Placeholder(n))]
            ELSE IF \E n \in DOMAIN v, k \in 1..2 : MatchesAt(t, i - k, Placeholder(n))
            THEN <<>>
            ELSE <<t[i]>>],
         1, Len(t))

Substituted(t, v) == Normalize(SubstituteAll(t, v))

-----------------------------------------------------------------------------
(* C1 *)

\* C1 (as stated): every call with force=false on a target path that already
\* exists returns the AlreadyExists error and leaves the file system as it was.
C1_AlreadyExistsAlways ==
  (Done /\ ~args.force /\ TargetExisted) =>
     (result.kind = "AlreadyExists" /\ FsUnchanged)

\* C1 (amended): a call with force=false on an existing target path never
\* changes the file system, writes no file and never calls the provider; it
\* returns AlreadyExists when the library path converts to text, and the
\* conversion error (kind Other) when it does not.
C1_Existing_NoForce_NoMutation ==
  (pc # "idle" /\ ~args.force /\ TargetExisted) =>
     /\ FsUnchanged
     /\ written = <<>>
     /\ providerCalls = 0
     /\ Done => result = IF args.lib.utf8
                         THEN Err("AlreadyExists", "exists")
                         ELSE Err("Other", "to_str")

C1_Witness ==
  /\ Done /\ ~args.force /\ TargetExisted
  /\ result.kind = "AlreadyExists"
  /\ Exists(files, CARGO_TOML_PATH)

-----------------------------------------------------------------------------
(* C2 *)

\* C2: a call on a target path that does not exist, with the test input
\* provider and no failing I/O step (path conversion, directory creation, file
\* write), returns Ok and leaves exactly the five files, each non-empty.
C2_FreshTarget_FiveFiles ==
  (Done /\ ~TargetExisted /\ args.provider = "test" /\ faults = {}) =>
     /\ result = Ok
     /\ DOMAIN files = FiveFiles
     /\ \A p \in FiveFiles : Len(files[p]) > 0 /\ \A i \in DOMAIN files[p] : files[p][i] # ""
     /\ {".", "src"} \subseteq dirs

C2_Witness ==
  /\ Done /\ ~TargetExisted /\ args.provider = "test" /\ ~args.force
  /\ result = Ok
  /\ DOMAIN files = FiveFiles

-----------------------------------------------------------------------------
(* C3 *)

-----------------------------------------------------------------------------
(* C4 *)

\* C4: after a successful call, input.txt holds exactly the text the provider
\* returned, placeholders in it included.
C4_InputVerbatim ==
  (Done /\ result = Ok) => (Exists(files, INPUT_TXT) /\ files[INPUT_TXT] = input)

C4_Witness ==
  /\ Done /\ result = Ok
  /\ input \in NetTexts
  /\ Render(input, Variables(args), order) # input
  /\ files[INPUT_TXT] = input

-----------------------------------------------------------------------------
(* C5 *)

\* C5: the rendered Cargo.toml, src/main.rs and src/lib.rs of a successful
\* call do not depend on the order in which write_file iterates the bindings:
\* every iteration order yields the content that was written.
C5_RenderingDeterministic ==
  (Done /\ result = Ok) =>
     \A o \in Orders(Names) :
        /\ files[CARGO_TOML_PATH] = Render(CARGO_TOML, Variables(args), o)
        /\ files[MAIN_RS_PATH] = Render(MAIN_RS, Variables(args), o)
        /\ files[LIB_RS_PATH] = Render(LIB_RS, Variables(args), o)

-----------------------------------------------------------------------------
(* C6 *)

\* C6: when load_input fails, write_files returns that error at once: none of
\* the five files has been written or changed by the call, the target
\* directory and src exist, and the provider was called exactly once.
C6_ProviderFailure ==
  (Done /\ "load_input" \in faults) =>
     /\ result = Err("Other", "load_input")
     /\ written = <<>>
     /\ files = pre.files
     /\ {".", "src"} \subseteq dirs
     /\ pre.dirs \subseteq dirs
     /\ providerCalls = 1

C6_Witness ==
  /\ Done /\ "load_input" \in faults
  /\ ~TargetExisted
  /\ dirs = {".", "src"}
  /\ result = Err("Other", "load_input")

-----------------------------------------------------------------------------
(* C7 *)

-----------------------------------------------------------------------------
(* C8 *)

\* C8: the Cargo.toml of a successful call is the CARGO_TOML template with
\* {YEAR}, {DAY} and {AOC_PATH} replaced by the decimal year, the decimal day
\* and the library path as given, and nothing else changed.
C8_CargoToml ==
  (Done /\ result = Ok) =>
     /\ files[CARGO_TOML_PATH] = Substituted(CARGO_TOML, Variables(args))
     \* written out: the text before {YEAR}, the year, "-", the day, the text
     \* up to {AOC_PATH}, the library path, the rest of the template
     /\ files[CARGO_TOML_PATH] =
          Normalize(<<"[package]\nname = \"mr-kaffee-", Decimal(args.year), "-",
                      Decimal(args.day)>>
                    \o SubSeq(CARGO_TOML, 9, 11) \o args.lib.text
                    \o SubSeq(CARGO_TOML, 15, Len(CARGO_TOML)))

-----------------------------------------------------------------------------
(* C9 *)

\* C9: a call with force=true on an existing target directory changes nothing
\* but the five files (and creates src if missing): every other file present
\* before is still there with the same content, no directory is removed and
\* no other path appears.
C9_Frame ==
  (pc # "idle" /\ args.force /\ TargetExisted) =>
     /\ pre.dirs \subseteq dirs
     /\ dirs \subseteq pre.dirs \cup {"src"}
     /\ DOMAIN pre.files \subseteq DOMAIN files
     /\ DOMAIN files \subseteq (DOMAIN pre.files) \cup FiveFiles
     /\ \A p \in (DOMAIN pre.files) \ FiveFiles : files[p] = pre.files[p]

C9_Witness ==
  /\ Done /\ args.force /\ TargetExisted
  /\ result = Ok
  /\ "src" \notin pre.dirs
  /\ Exists(files, NOTES) /\ files[NOTES] = pre.files[NOTES]
  /\ \A p \in FiveFiles : Exists(files, p)

-----------------------------------------------------------------------------
(* C10 *)

\* C10: when the library path does not convert to text, write_files fails
\* with kind Other before the existence check: the file system is unchanged,
\* the provider is not called, and the error is the conversion error also
\* when the target exists and force=false.
C10_LibPathConversionFirst ==
  (pc # "idle" /\ ~args.lib.utf8) =>
     /\ pc \in {"to_str", "done"}
     /\ FsUnchanged
     /\ providerCalls = 0
     /\ written = <<>>
     /\ Done => result = Err("Other", "to_str")

C10_Witness ==
  /\ Done /\ ~args.lib.utf8
  /\ TargetExisted /\ ~args.force
  /\ result = Err("Other", "to_str")

====
